---- MODULE Spec2Model ----
(***************************************************************************)
(* A model of the optimisation loop of src/genetic.py (class Algorithm):   *)
(* the mutators, the evaluator's budget formula, the success tally and the *)
(* main loop with its plateau, confirmation and advance steps.             *)
(*                                                                         *)
(* Success rates are floats in [0,1] in the source; here they are integers *)
(* in units of 1/RateScale, so that 0.5, 0.95, 0.95*1.005 and 0.95*1.006   *)
(* are all exact.  Candidate sequences are TLA+ sequences (1-based); the   *)
(* indices the source computes are kept 0-based and converted by At.       *)
(***************************************************************************)
EXTENDS Integers, Sequences, FiniteSets, TLC

\* ------------------------------------------------------------------ constants
RateScale == 100000
SUCCESS_THRESH == 50000
TARGET_SUCCESS_RATE == 95000
INITIAL_MONTE_RUNS == 100
MAX_MONTE_RUNS == 5000

\* the floats TARGET_SUCCESS_RATE * 1.005 and * 1.006, in units of 1/RateScale
ConfirmThreshold == (TARGET_SUCCESS_RATE * 1005) \div 1000
TargetWithMargin == (TARGET_SUCCESS_RATE * 1006) \div 1000

\* SEED = True (line 39): main never takes the else branch of lines 61-67.

\* ------------------------------------------------------------------ bounds
\* OFFSPRING_QTY (10 in the source) and ITER_LIMIT (5 in the source), scaled
\* down with the candidate sequences so that whole plateaus are explored
OFFSPRING_QTY == 2
ITER_LIMIT == 2
\* nested Algorithm.main invocations followed (the source recurses without limit)
MaxStack == 2
\* the job's last_date in the registry at start, counted in steps above the
\* earliest date the model follows
StartDate == 1
\* latest last_date another instance can persist
MaxDate == 2
\* number of baseline writes by other instances followed
MaxOtherSaves == 1
\* distinct sets of random draws (sim_results['returns']) told apart
MaxDraws == 2
\* largest max_step handed to _step_mutate when it is checked on its own
MaxStepInput == 3

\* number of _update_param_count calls followed when the tally is checked on its own
MaxAccepts == 3

\* spacing of the prior success rates the budget formula is evaluated on
RateStep == 25

VARIABLES
    mutable_param_ranges,   \* self.mutable_param_ranges: param -> candidate sequence
    prev_used_params,       \* self.prev_used_params (the History), as a set
    mcall,                  \* one call of a mutator: its arguments, position and locals
    tally_file,             \* the content of the file at const.PARAMS_SUCCESS_LOC
    param_cnt,              \* self.param_cnt
    reset_success,          \* self.reset_success
    tcall,                  \* the _update_param_count calls made: first file, arguments, outcome
    bcall,                  \* one evaluation of the budget formula: success_rate, result
    stack,                  \* the active invocations of Algorithm.main, innermost last
    status,                 \* "running", "returned" (main returned None) or the exception raised
    model_vals,             \* self.model.param_vals: mutable values and the job's last_date
    params_file,            \* the baseline persisted at const.PARAMS_LOC
    sim,                    \* the Simulator run made by the last step, if any
    accepted,               \* the _update_param_count call made by the last step, if any
    tried,                  \* step children evaluated since the last re-seed / History reset
    saves_left,             \* number of baseline writes other instances will still make
    cancelled,              \* whether some evaluation of this run was cancelled
    returns,                \* self.returns: the draws of the last completed Simulator run
    MONTE_CARLO_RUNS        \* simulator.MONTE_CARLO_RUNS, the simulator module's run count

mutVars == <<prev_used_params, mcall>>
tallyVars == <<tally_file, param_cnt, reset_success, tcall>>
mainVars == <<stack, status, model_vals, params_file, sim, accepted, tried,
              saves_left, cancelled, returns, MONTE_CARLO_RUNS>>
vars == <<mutable_param_ranges, prev_used_params, mcall,
          tally_file, param_cnt, reset_success, tcall, bcall,
          stack, status, model_vals, params_file, sim, accepted, tried,
          saves_left, cancelled, returns, MONTE_CARLO_RUNS>>

\* ------------------------------------------------------------------ helpers
Min(a, b) == IF a < b THEN a ELSE b
Max(a, b) == IF a > b THEN a ELSE b

\* The registries the model is run on: for each mutable parameter its ordered,
\* duplicate-free candidate sequence (the evaluated 'range' of param_details).
RangeConfigs ==
    { [X |-> <<1, 2, 3, 4, 5>>],
      [X |-> <<1, 2, 3>>, Y |-> <<10, 20>>],
      [X |-> <<7>>, Y |-> <<10, 20>>] }

\* list.index(v): 0-based position of the first occurrence of v
IndexOf(param_range, v) ==
    (CHOOSE i \in 1..Len(param_range) :
        /\ param_range[i] = v
        /\ \A j \in 1..(i-1) : param_range[j] # v) - 1

\* param_range[i] for a 0-based i inside the sequence
At(param_range, i) == param_range[i + 1]

\* every choice of one 0-based index per parameter
Indices(ranges) ==
    { g \in [DOMAIN ranges ->
                UNION { 0..(Len(ranges[p]) - 1) : p \in DOMAIN ranges }] :
        \A p \in DOMAIN ranges : g[p] < Len(ranges[p]) }

\* every mutable assignment over the candidate sequences
Assignments(ranges) ==
    { [p \in DOMAIN ranges |-> At(ranges[p], f[p])] :
        f \in Indices(ranges) }

\* ------------------------------------------------------------------ mutators
\* _gaussian_int: scale = max_deviation/1.5 is 0 when max_deviation is 0;
\* scipy's norm.cdf with scale 0 is nan, and np.random.choice refuses nan
\* probabilities with a ValueError.
gaussian_int_raises(max_deviation) == max_deviation = 0

gaussian_int_wide(center, max_deviation) ==
    { center + d : d \in (0 - max_deviation - 1)..(max_deviation + 1) }

\* _gaussian_int: the values it can return.  x = center-max_deviation ..
\* center+max_deviation, each with a positive normalised probability.
gaussian_int(center, max_deviation) ==
    { center + d : d \in (0 - max_deviation)..max_deviation }

\* the clamp of line 141: min(len(param_range)-1, max(0, drawn))
ClampWide(param_range, drawn) == Max(0, drawn)
ClampIdx(param_range, drawn) == Min(Len(param_range) - 1, Max(0, drawn))

\* the per-parameter draws one pass of _step_mutate's for loop can make
RawDraws(ranges, vals, max_step) ==
    { g \in [DOMAIN ranges ->
                UNION { gaussian_int(IndexOf(ranges[p], vals[p]), max_step) :
                          p \in DOMAIN ranges }] :
        \A p \in DOMAIN ranges :
            g[p] \in gaussian_int(IndexOf(ranges[p], vals[p]), max_step) }

NewIdx(ranges, raw) == [p \in DOMAIN ranges |-> ClampIdx(ranges[p], raw[p])]

\* res[param] = param_range[new_idx]; an index past the end is an IndexError
IndexInRange(ranges, idx) ==
    \A p \in DOMAIN ranges : idx[p] >= 0 /\ idx[p] < Len(ranges[p])

ValuesAt(ranges, idx) == [p \in DOMAIN ranges |-> At(ranges[p], idx[p])]

\* _random_mutate: np.random.choice(param_range) for every parameter
random_mutate(ranges) ==
    { ValuesAt(ranges, f) : f \in Indices(ranges) }

\* ------------------------------------------------------------------ budget
\* (success_rate + (1-TARGET_SUCCESS_RATE)) ** 70 in fixed point: a value v
\* stands for v/PowScale, every multiplication rounds down, and the running
\* product is cut off at 2.0 (the result is only ever compared with 1.0).
PowScale == 10000
Steepness == 70

\* x*y of two fixed-point values, rounded down and cut off at 2.0
MulFix(x, y) ==
    CHOOSE r \in { IF (v * w) \div PowScale > 2 * PowScale
                    THEN 2 * PowScale ELSE (v * w) \div PowScale :
                    v \in {x}, w \in {y} } : TRUE

\* base ** n by repeated squaring; base is in units of 1/RateScale
RECURSIVE PowFix(_, _)
PowFix(base, n) ==
    IF n = 0 THEN PowScale
    ELSE IF n % 2 = 0 THEN MulFix(PowFix(base, n \div 2), PowFix(base, n \div 2))
    ELSE MulFix(PowFix(base, n - 1), (base * PowScale) \div RateScale)

RawRunsNoOffset(success_rate) ==
    (MAX_MONTE_RUNS * PowFix(success_rate, Steepness)) \div PowScale
\* MAX_MONTE_RUNS * (success_rate + (1-TARGET_SUCCESS_RATE)) ** 70, rounded down
RawRuns(success_rate) ==
    (MAX_MONTE_RUNS
       * PowFix(success_rate + (RateScale - TARGET_SUCCESS_RATE), Steepness))
    \div PowScale

ClampRunsNoMin(x) == Max(INITIAL_MONTE_RUNS, x)
\* int(max(INITIAL_MONTE_RUNS, min(MAX_MONTE_RUNS, x)))
ClampRuns(x) == Max(INITIAL_MONTE_RUNS, Min(MAX_MONTE_RUNS, x))

\* override_dict['monte_carlo_runs'] of _make_child, lines 221-222
monte_carlo_runs(success_rate) == ClampRuns(RawRuns(success_rate))

\* ------------------------------------------------------------------ BudgetSpec
\* The budget formula of _make_child on its own, for prior success rates
\* 0, RateStep, 2*RateStep, ... up to 1.0.
IdleBcall == [pc |-> "idle"]

\* ------------------------------------------------------------------ main loop
\* An oracle result is a success rate or the empty dict of a cancelled run.
Cancelled == 0 - 1
MainRates == {0, 30000, TARGET_SUCCESS_RATE, TargetWithMargin}
OracleResults == MainRates \cup {Cancelled}

\* the registry the loop is run on
MainConfigs == { [X |-> <<1, 2>>, Y |-> <<10, 20>>] }

\* the budget of every rate the loop can hold
RunsTable == [r \in MainRates |-> monte_carlo_runs(r)]

\* sets of draws are told apart by a number; self.returns is unset at first
NoDraws == 0
Draws == 1..MaxDraws

ReuseNever(idx, stored) == NoDraws
\* lines 225-226: override_dict['returns'], set only when idx != 0
ReuseReturns(idx, stored) == IF idx # 0 THEN stored ELSE NoDraws

\* the draws a Simulator run uses and hands back in sim_results['returns']: the
\* ones passed in, or freshly generated ones, unlike the stored ones (they get
\* the next number)
OracleDraws(reuse, stored, result) ==
    IF result = Cancelled THEN {NoDraws}
    ELSE IF reuse # NoDraws THEN {reuse}
    ELSE {(stored % MaxDraws) + 1}

\* line 232, skipped by the return of line 231
ReturnsAfterRun(stored, draws, result) ==
    IF result = Cancelled THEN stored ELSE draws

NoSim == [mutate |-> "none"]
NoAccept == [called |-> FALSE]
Accept(vals) == [called |-> TRUE, vals |-> vals]
NoTried == [reseed |-> {}, reset |-> {}]

\* simulator.MONTE_CARLO_RUNS before the optimizer touches it (line 111 reads
\* it): a run count other than MAX_MONTE_RUNS
ModuleRuns == INITIAL_MONTE_RUNS

IdleMain ==
    /\ stack = <<>>
    /\ status = "idle"
    /\ model_vals = [date |-> 0]
    /\ params_file = [date |-> 0]
    /\ sim = NoSim
    /\ accepted = NoAccept
    /\ tried = NoTried
    /\ saves_left = 0
    /\ cancelled = FALSE
    /\ returns = NoDraws
    /\ MONTE_CARLO_RUNS = ModuleRuns

\* the assignments one call of _step_mutate can return: a draw of lines
\* 139-142 that is not in prev_used_params (lines 143-147)
step_mutate(ranges, vals, max_step, history) ==
    { ValuesAt(ranges, NewIdx(ranges, raw)) : raw \in RawDraws(ranges, vals, max_step) }
        \ history

HistoryKept(history, child) == history
\* line 209: self.prev_used_params.append(child_mute_param_vals)
HistoryAfterStep(history, child) == history \cup {child}

FalsyNever(result) == FALSE
\* not sim_results / not children[-1][0] / not success_rate: a cancelled run
\* and a success rate of 0.0 are both falsy
Falsy(result) == result = Cancelled \/ result = 0

PlateauNever(parent_is_best_qty) == FALSE
\* line 91: parent_is_best_qty >= ITER_LIMIT
PlateauReached(parent_is_best_qty) == parent_is_best_qty >= ITER_LIMIT

ConfirmAtTarget(success_rate) == success_rate >= TARGET_SUCCESS_RATE
\* line 109: success_rate >= TARGET_SUCCESS_RATE * 1.005
ConfirmTriggered(success_rate) == success_rate >= ConfirmThreshold

BeatenWhenLater(date, file) == date < file.date
\* _check_if_beaten, line 166, for a registry with one job
Beaten(date, file) == date > file.date

\* line 74: children = []
NoChildren == <<>>
\* children[0] before any child is appended: no entry, a rate below every rate
NoBest == [rate |-> Cancelled]

\* the highest success rate among the children
MaxRate(children) ==
    CHOOSE r \in {children[i].rate : i \in DOMAIN children} :
        \A i \in DOMAIN children : children[i].rate <= r

LastChild(children) == children[Len(children)]
\* line 84 and children[0]: the sort by rate, descending, is stable, so the
\* head of the sorted list is the first child that has the highest rate
BestChild(children) ==
    children[CHOOSE i \in DOMAIN children :
                /\ children[i].rate = MaxRate(children)
                /\ \A j \in 1..(i - 1) : children[j].rate < MaxRate(children)]

\* a fresh invocation of main, before its first line
NewFrame(next_loop, date, vals) ==
    [next_loop |-> next_loop, date |-> date, parent |-> vals, success_rate |-> 0,
     parent_is_best_qty |-> 0, idx |-> 0,
     children |-> NoChildren, best |-> NoBest, pc |-> "start"]

Top == stack[Len(stack)]
SetTop(frame) == [stack EXCEPT ![Len(stack)] = frame]
Running == status = "running" /\ stack # <<>>

\* the mutate argument of _make_child
Strategies == {"step", "random", "identical", "bogus"}

StrategyDefaulted(mutate) == TRUE
\* lines 207-216: the strategies _make_child knows; any other raises
ValidStrategy(mutate) == mutate \in {"step", "random", "identical"}

ChildrenAllRandom(mutate, ranges, parent, max_step, history) ==
    random_mutate(ranges)
\* lines 208, 212, 215: the child assignments the chosen mutator can produce
ChildrenOf(mutate, ranges, parent, max_step, history) ==
    IF mutate = "step" THEN step_mutate(ranges, parent, max_step, history)
    ELSE IF mutate = "random" THEN random_mutate(ranges)
    ELSE {parent}

\* full_param_vals as _make_child receives it: the mutable entries and the
\* entry that is not mutable, the job's last_date
FullParamVals(mute, date) == mute @@ ("last_date" :> date)

\* the mutable entries of a full assignment
MuteParamVals(ranges, full) == [p \in DOMAIN ranges |-> full[p]]

UpdateSkipped(full, child) == full
\* line 217: full_param_vals.update(child_mute_param_vals)
Update(full, child) == child @@ full

\* lines 209, 211-213: the History after the mutation
HistoryAfterChild(mutate, history, child) ==
    IF mutate = "step" THEN HistoryAfterStep(history, child)
    ELSE IF mutate = "random" THEN {child}
    ELSE history

\* where the caller goes on when the main it called returns None
Resume(frame) ==
    IF frame.pc = "ret_top"
    THEN [frame EXCEPT !.pc = "child", !.idx = 0,
                       !.children = NoChildren, !.best = NoBest]
    ELSE IF frame.pc = "ret_adv" THEN [frame EXCEPT !.pc = "save"]
    ELSE [frame EXCEPT !.pc = "loop"]

\* return None from the innermost main
Returned(stk) ==
    IF Len(stk) = 1 THEN <<>>
    ELSE [i \in 1..(Len(stk) - 1) |->
            IF i = Len(stk) - 1 THEN Resume(stk[i]) ELSE stk[i]]

StatusAfterReturn(stk) == IF Len(stk) = 1 THEN "returned" ELSE "running"


\* ------------------------------------------------------------------ tally
\* The tally file is empty text, text json.load cannot parse, or a JSON object
\* mapping parameter names to arrays of counts.
EmptyTable == [p \in {} |-> <<>>]
EmptyFile == [kind |-> "empty", table |-> EmptyTable]
CorruptFile == [kind |-> "corrupt", table |-> EmptyTable]
JsonFile(table) == [kind |-> "json", table |-> table]

\* line 194: {param: [0]*len(param_range)}
ZeroTable(ranges) ==
    [p \in DOMAIN ranges |-> [i \in 1..Len(ranges[p]) |-> 0]]

\* the order in which the for loops visit mutable_param_ranges.items()
ParamOrder(ranges) == SelectSeq(<<"X", "Y">>, LAMBDA p : p \in DOMAIN ranges)

\* lines 186-191: json.load, and the except branch when it fails
LoadFails(file) == file.kind # "json"
LoadedCount(file) == IF LoadFails(file) THEN EmptyTable ELSE file.table

ResetFlagKept(reset, file) == reset
\* line 190: the except branch sets self.reset_success
ResetFlagAfterLoad(reset, file) == reset \/ LoadFails(file)

CountKept(cnt, reset, ranges) == ZeroTable(ranges)
\* lines 192-194: a set flag replaces the loaded table by all-zero arrays
CountAfterReset(cnt, reset, ranges) == IF reset THEN ZeroTable(ranges) ELSE cnt

\* lines 195-196: self.param_cnt[param][param_range.index(val)] += 1 for every
\* parameter in turn; a missing key or a short array raises and leaves the
\* increments already made
RECURSIVE IncrementLoop(_, _, _, _)
IncrementLoop(cnt, ranges, vals, order) ==
    IF order = <<>> THEN [cnt |-> cnt, err |-> "ok"]
    ELSE LET p == Head(order)
             i == IndexOf(ranges[p], vals[p])
         IN  IF p \notin DOMAIN cnt THEN [cnt |-> cnt, err |-> "KeyError"]
             ELSE IF i >= Len(cnt[p]) THEN [cnt |-> cnt, err |-> "IndexError"]
             ELSE IncrementLoop([cnt EXCEPT ![p] = [@ EXCEPT ![i + 1] = @ + 1]],
                                ranges, vals, Tail(order))

\* _update_param_count as a whole: what it leaves in self.param_cnt,
\* self.reset_success and the file
update_param_count(file, reset, ranges, vals) ==
    LET flag == ResetFlagAfterLoad(reset, file)
        cnt == CountAfterReset(LoadedCount(file), flag, ranges)
        out == IncrementLoop(cnt, ranges, vals, ParamOrder(ranges))
    IN  [param_cnt |-> out.cnt,
         reset_success |-> FALSE,
         err |-> out.err,
         file |-> IF out.err = "ok" THEN JsonFile(out.cnt)   \* lines 197-198
                  ELSE IF file.kind = "empty" THEN JsonFile(EmptyTable) \* line 191
                  ELSE file]

\* ------------------------------------------------------------------ TallySpec
\* One instance calling _update_param_count again and again on a file no other
\* process writes.
TallyFiles(ranges) ==
    { EmptyFile, CorruptFile, JsonFile(EmptyTable), JsonFile(ZeroTable(ranges)),
      JsonFile([p \in DOMAIN ranges |-> <<2>>]),
      JsonFile([p \in DOMAIN ranges |-> [i \in 1..Len(ranges[p]) |-> i]]) }

IdleMcall == [pc |-> "idle"]
IdleTcall == [file0 |-> EmptyFile, reset0 |-> FALSE, accepts |-> <<>>, err |-> "idle"]

TallyInit ==
    /\ mutable_param_ranges \in RangeConfigs
    /\ tally_file \in TallyFiles(mutable_param_ranges)
    /\ reset_success \in BOOLEAN
    /\ param_cnt = EmptyTable
    /\ tcall = [file0 |-> tally_file, reset0 |-> reset_success,
                accepts |-> <<>>, err |-> "ok"]
    /\ prev_used_params = {}
    /\ mcall = IdleMcall
    /\ bcall = IdleBcall
    /\ IdleMain

\* _update_param_count(param_vals), lines 185-198
UpdateParamCount ==
    /\ tcall.err = "ok"
    /\ Len(tcall.accepts) < MaxAccepts
    /\ \E vals \in Assignments(mutable_param_ranges) :
          LET out == update_param_count(tally_file, reset_success,
                                        mutable_param_ranges, vals)
          IN  /\ param_cnt' = out.param_cnt
              /\ reset_success' = out.reset_success
              /\ tally_file' = out.file
              /\ tcall' = [tcall EXCEPT !.accepts = Append(@, vals),
                                        !.err = out.err]
    /\ UNCHANGED <<mutable_param_ranges, mutVars, bcall, mainVars>>

TallyNext == UpdateParamCount

TallySpec == TallyInit /\ [][TallyNext]_vars

\* ------------------------------------------------------------------ Spec
\* One instance: Algorithm(Model()).main(), with an oracle that may return any
\* rate of MainRates or a cancelled run, and other instances that may persist
\* a baseline with an earlier or a later last_date.
Init ==
    /\ mutable_param_ranges \in MainConfigs
    /\ prev_used_params = {}
    /\ \E vals \in Assignments(mutable_param_ranges) :
          /\ model_vals = [mut |-> vals, date |-> StartDate]
          /\ params_file = [mut |-> vals, date |-> StartDate]
          /\ stack = <<NewFrame(FALSE, StartDate, vals)>>
    /\ status = "running"
    /\ sim = NoSim
    /\ accepted = NoAccept
    /\ tried = NoTried
    /\ saves_left = MaxOtherSaves
    /\ cancelled = FALSE
    /\ returns = NoDraws
    /\ MONTE_CARLO_RUNS = ModuleRuns
    /\ mcall = IdleMcall
    /\ tally_file = EmptyFile
    /\ param_cnt = EmptyTable
    /\ reset_success = FALSE
    /\ tcall = IdleTcall
    /\ bcall = IdleBcall

Idle == <<mutable_param_ranges, mcall, tallyVars, bcall, saves_left>>

\* main, lines 51-68: the locals, the History reset and the first tally
MainStart ==
    /\ Running /\ Top.pc = "start"
    /\ prev_used_params' = {}
    /\ tried' = [tried EXCEPT !.reset = {}]
    /\ stack' = SetTop([Top EXCEPT
            !.date = IF Top.next_loop THEN Top.date ELSE model_vals.date,
            !.parent = model_vals.mut,
            !.success_rate = 0,
            !.parent_is_best_qty = 0,
            !.pc = "loop"])
    /\ accepted' = Accept(model_vals.mut)
    /\ sim' = NoSim
    /\ UNCHANGED <<status, model_vals, params_file, Idle>>
    /\ UNCHANGED <<cancelled, returns, MONTE_CARLO_RUNS>>

\* main, line 72: _check_if_beaten at the top of a generation
CheckBeatenTop ==
    /\ Running /\ Top.pc = "loop"
    /\ IF Beaten(Top.date, params_file)
       THEN /\ Len(stack) < MaxStack
            /\ stack' = Append(SetTop([Top EXCEPT !.pc = "ret_top"]),
                               NewFrame(FALSE, model_vals.date, model_vals.mut))
       ELSE stack' = SetTop([Top EXCEPT !.pc = "child", !.idx = 0,
                               !.children = NoChildren, !.best = NoBest])
    /\ sim' = NoSim
    /\ accepted' = NoAccept
    /\ UNCHANGED <<status, model_vals, params_file, prev_used_params, tried, Idle>>
    /\ UNCHANGED <<cancelled, returns, MONTE_CARLO_RUNS>>

\* main, lines 75-81, one pass: _make_child(..., 'step', ...), lines 207-236
MakeChildStep ==
    /\ Running /\ Top.pc = "child"
    /\ LET max_step == Max(1, Top.parent_is_best_qty) IN
       \E child \in step_mutate(mutable_param_ranges, Top.parent, max_step,
                                prev_used_params) :
       \E result \in OracleResults :
       \E draws \in OracleDraws(ReuseReturns(Top.idx, returns), returns, result) :
          /\ prev_used_params' = HistoryAfterStep(prev_used_params, child)
          /\ tried' = [reseed |-> tried.reseed \cup {child},
                       reset |-> tried.reset \cup {child}]
          /\ sim' = [mutate |-> "step", vals |-> child, date |-> Top.date,
                     runs |-> RunsTable[Top.success_rate],
                     idx |-> Top.idx, result |-> result,
                     reuse |-> ReuseReturns(Top.idx, returns), draws |-> draws]
          /\ returns' = ReturnsAfterRun(returns, draws, result)
          /\ cancelled' = (cancelled \/ result = Cancelled)
          /\ IF Falsy(result)
             THEN /\ stack' = Returned(stack)
                  /\ status' = StatusAfterReturn(stack)
             ELSE /\ stack' = SetTop([Top EXCEPT
                        !.children = Append(Top.children,
                                            [rate |-> result, vals |-> child]),
                        !.best = BestChild(Append(Top.children,
                                            [rate |-> result, vals |-> child])),
                        !.idx = Top.idx + 1,
                        !.pc = IF Top.idx + 1 = OFFSPRING_QTY
                               THEN "rank" ELSE "child"])
                  /\ status' = status
    /\ accepted' = NoAccept
    /\ UNCHANGED <<model_vals, params_file, Idle, MONTE_CARLO_RUNS>>

\* _step_mutate, lines 143-146, when every draw is in prev_used_params: the
\* method calls itself until the interpreter raises RecursionError
StepMutateExhausted ==
    /\ Running /\ Top.pc = "child"
    /\ step_mutate(mutable_param_ranges, Top.parent,
                   Max(1, Top.parent_is_best_qty), prev_used_params) = {}
    /\ stack' = <<>>
    /\ status' = "RecursionError"
    /\ sim' = NoSim
    /\ accepted' = NoAccept
    /\ UNCHANGED <<model_vals, params_file, prev_used_params, tried, Idle>>
    /\ UNCHANGED <<cancelled, returns, MONTE_CARLO_RUNS>>

\* where main goes after lines 84-107: line 109
AfterGeneration(success_rate) ==
    IF ConfirmTriggered(success_rate) THEN "confirm" ELSE "loop"

\* main, lines 84-95 and 101-109: rank the children, then plateau or adopt
Rank ==
    /\ Running /\ Top.pc = "rank"
    /\ IF Top.success_rate >= Top.best.rate
       THEN /\ accepted' = NoAccept
            /\ IF PlateauReached(Top.parent_is_best_qty + 1)
               THEN stack' = SetTop([Top EXCEPT !.parent_is_best_qty = 0,
                                       !.success_rate = 0, !.pc = "reseed",
                                       !.idx = 0, !.children = NoChildren,
                                       !.best = NoBest])
               ELSE stack' = SetTop([Top EXCEPT
                        !.parent_is_best_qty = Top.parent_is_best_qty + 1,
                        !.idx = 0, !.children = NoChildren, !.best = NoBest,
                        !.pc = AfterGeneration(Top.success_rate)])
       ELSE /\ accepted' = Accept(Top.best.vals)
            /\ stack' = SetTop([Top EXCEPT !.parent_is_best_qty = 0,
                        !.success_rate = Top.best.rate,
                        !.parent = Top.best.vals,
                        !.idx = 0, !.children = NoChildren, !.best = NoBest,
                        !.pc = AfterGeneration(Top.best.rate)])
    /\ sim' = NoSim
    /\ UNCHANGED <<status, model_vals, params_file, prev_used_params, tried, Idle>>
    /\ UNCHANGED <<cancelled, returns, MONTE_CARLO_RUNS>>

\* main, lines 96-99, one pass: _make_child(..., 'random'), lines 210-236
Reseed ==
    /\ Running /\ Top.pc = "reseed"
    /\ \E child \in random_mutate(mutable_param_ranges) :
       \E result \in OracleResults :
       \E draws \in OracleDraws(ReuseReturns(0, returns), returns, result) :
          /\ prev_used_params' = {child}
          /\ tried' = NoTried
          /\ sim' = [mutate |-> "random", vals |-> child, date |-> Top.date,
                     runs |-> RunsTable[Top.success_rate],
                     idx |-> 0, result |-> result,
                     reuse |-> ReuseReturns(0, returns), draws |-> draws]
          /\ returns' = ReturnsAfterRun(returns, draws, result)
          /\ cancelled' = (cancelled \/ result = Cancelled)
          /\ IF Falsy(result)
             THEN /\ stack' = Returned(stack)
                  /\ status' = StatusAfterReturn(stack)
             ELSE /\ stack' = SetTop([Top EXCEPT
                        !.success_rate = result,
                        !.parent = child,
                        !.pc = IF result < SUCCESS_THRESH THEN "reseed"
                               ELSE AfterGeneration(result)])
                  /\ status' = status
    /\ accepted' = NoAccept
    /\ UNCHANGED <<model_vals, params_file, Idle, MONTE_CARLO_RUNS>>

\* lines 111-117: simulator.MONTE_CARLO_RUNS is saved in a local and set to
\* MAX_MONTE_RUNS; line 117 puts the saved value back, and the return of line
\* 116 comes before it
RunsAfterConfirm(current_monte_carlo_runs, result) ==
    IF Falsy(result) THEN MAX_MONTE_RUNS ELSE current_monte_carlo_runs

\* main, lines 110-120: _make_child(..., 'identical', ...), lines 214-236
Confirm ==
    /\ Running /\ Top.pc = "confirm"
    /\ \E child \in ChildrenOf("identical", mutable_param_ranges, Top.parent, 1,
                               prev_used_params) :
       \E result \in OracleResults :
       \E draws \in OracleDraws(ReuseReturns(0, returns), returns, result) :
          /\ prev_used_params' = HistoryAfterChild("identical", prev_used_params, child)
          /\ sim' = [mutate |-> "identical", vals |-> child, date |-> Top.date,
                     runs |-> RunsTable[Top.success_rate],
                     idx |-> 0, result |-> result,
                     reuse |-> ReuseReturns(0, returns), draws |-> draws]
          /\ returns' = ReturnsAfterRun(returns, draws, result)
          /\ cancelled' = (cancelled \/ result = Cancelled)
          /\ IF Falsy(result)
             THEN /\ stack' = Returned(stack)
                  /\ status' = StatusAfterReturn(stack)
             ELSE /\ stack' = SetTop([Top EXCEPT
                        !.success_rate = result,
                        !.pc = IF result < TARGET_SUCCESS_RATE THEN "loop"
                               ELSE "advance"])
                  /\ status' = status
          /\ MONTE_CARLO_RUNS' = RunsAfterConfirm(MONTE_CARLO_RUNS, result)
    /\ accepted' = NoAccept
    /\ UNCHANGED <<model_vals, params_file, tried, Idle>>

\* main, line 122: _check_if_beaten before the baseline is overwritten
CheckBeatenAdvance ==
    /\ Running /\ Top.pc = "advance"
    /\ IF Beaten(Top.date, params_file)
       THEN /\ Len(stack) < MaxStack
            /\ stack' = Append(SetTop([Top EXCEPT !.pc = "ret_adv"]),
                               NewFrame(FALSE, model_vals.date, model_vals.mut))
       ELSE stack' = SetTop([Top EXCEPT !.pc = "save"])
    /\ sim' = NoSim
    /\ accepted' = NoAccept
    /\ UNCHANGED <<status, model_vals, params_file, prev_used_params, tried, Idle>>
    /\ UNCHANGED <<cancelled, returns, MONTE_CARLO_RUNS>>

\* Model.save_from_genetic(mutable values, reduce_dates): the values go into
\* param_vals, the job's last_date moves one step earlier when reduce_dates is
\* set, and param_vals is written to the baseline file
save_from_genetic(vals, parent, reduce_dates) ==
    [mut |-> parent,
     date |-> IF reduce_dates THEN vals.date - 1 ELSE vals.date]

\* main, lines 123-128: persist the confirmed parent and start over
Advance ==
    /\ Running /\ Top.pc = "save"
    /\ Len(stack) < MaxStack
    /\ Top.next_loop => model_vals.date > 0
    /\ LET saved == save_from_genetic(model_vals, Top.parent, Top.next_loop) IN
          /\ model_vals' = saved
          /\ params_file' = saved
          /\ stack' = Append(SetTop([Top EXCEPT !.date = saved.date,
                                                !.pc = "ret_main"]),
                             NewFrame(TRUE, saved.date, saved.mut))
    /\ sim' = NoSim
    /\ accepted' = NoAccept
    /\ UNCHANGED <<status, prev_used_params, tried, Idle>>
    /\ UNCHANGED <<cancelled, returns, MONTE_CARLO_RUNS>>

\* another optimizer instance persists its baseline (last writer wins): the
\* job's last_date in the file becomes earlier or later than it was.  This
\* instance reads the file only in _check_if_beaten and overwrites it in
\* save_from_genetic, so the writes are followed where the next thing it does
\* is that read or that write.
OtherInstanceSaves ==
    /\ Running
    /\ Top.pc \in {"loop", "advance", "save"}
    /\ saves_left > 0
    /\ saves_left' = saves_left - 1
    /\ \E date \in (0..MaxDate) \ {params_file.date} :
          params_file' = [params_file EXCEPT !.date = date]
    /\ sim' = NoSim
    /\ accepted' = NoAccept
    /\ UNCHANGED <<stack, status, model_vals, prev_used_params, tried,
                   mutable_param_ranges, mcall, tallyVars, bcall>>
    /\ UNCHANGED <<cancelled, returns, MONTE_CARLO_RUNS>>

Next ==
    \/ MainStart
    \/ CheckBeatenTop
    \/ MakeChildStep
    \/ StepMutateExhausted
    \/ Rank
    \/ Reseed
    \/ Confirm
    \/ CheckBeatenAdvance
    \/ Advance
    \/ OtherInstanceSaves

Spec == Init /\ [][Next]_vars

\* ------------------------------------------------------------------ OvertakeSpec
\* The same instance followed from the moment its first confirmation has
\* succeeded (line 121): the registry held the first candidate of every
\* parameter, the first generation's children are in the History, the best one
\* was adopted and confirmed, and meanwhile another instance has persisted a
\* baseline with an earlier last_date.  Other instances write the baseline up
\* to MaxOtherSaves more times from here on.
OvertakeInit ==
    /\ mutable_param_ranges \in MainConfigs
    /\ \E seed \in {[p \in DOMAIN mutable_param_ranges |->
                         mutable_param_ranges[p][1]]},
          history \in SUBSET Assignments(mutable_param_ranges),
          confirmed \in {TargetWithMargin} :
       \E parent \in history :
          /\ Cardinality(history) = OFFSPRING_QTY
          /\ prev_used_params = history
          /\ tried = [reseed |-> history, reset |-> history]
          /\ model_vals = [mut |-> seed, date |-> StartDate]
          /\ params_file = [mut |-> seed, date |-> StartDate - 1]
          /\ stack = <<[NewFrame(FALSE, StartDate, parent) EXCEPT
                            !.success_rate = confirmed, !.pc = "advance"]>>
    /\ sim = NoSim
    /\ returns = 2
    /\ MONTE_CARLO_RUNS = ModuleRuns
    /\ status = "running"
    /\ accepted = NoAccept
    /\ saves_left = MaxOtherSaves
    /\ cancelled = FALSE
    /\ mcall = IdleMcall
    /\ tally_file = EmptyFile
    /\ param_cnt = EmptyTable
    /\ reset_success = FALSE
    /\ tcall = IdleTcall
    /\ bcall = IdleBcall

OvertakeSpec == OvertakeInit /\ [][Next]_vars

\* ------------------------------------------------------------------ BudgetSpec
BudgetInit ==
    /\ \E k \in 0..(RateScale \div RateStep) :
          bcall = [pc |-> "call", success_rate |-> k * RateStep, runs |-> 0]
    /\ mutable_param_ranges = [X |-> <<1, 2, 3>>, Y |-> <<10, 20>>]
    /\ prev_used_params = {}
    /\ mcall = IdleMcall
    /\ tally_file = EmptyFile
    /\ param_cnt = EmptyTable
    /\ reset_success = FALSE
    /\ tcall = IdleTcall
    /\ IdleMain

\* _make_child, lines 221-222
ComputeBudget ==
    /\ bcall.pc = "call"
    /\ bcall' = [bcall EXCEPT !.runs = monte_carlo_runs(bcall.success_rate),
                              !.pc = "done"]
    /\ UNCHANGED <<mutable_param_ranges, mutVars, tallyVars, mainVars>>

BudgetNext == ComputeBudget

BudgetSpec == BudgetInit /\ [][BudgetNext]_vars

\* ------------------------------------------------------------------ ChildSpec
\* One call of _make_child on its own, from any History, parent, full
\* assignment and stored draws, with a valid or an invalid mutate argument.
ChildInit ==
    /\ mutable_param_ranges \in MainConfigs
    /\ prev_used_params \in SUBSET Assignments(mutable_param_ranges)
    /\ returns \in Draws
    /\ \E mutate \in Strategies, idx \in 0..1,
          parent \in Assignments(mutable_param_ranges),
          full \in Assignments(mutable_param_ranges),
          date \in 0..MaxDate :
          mcall = [op |-> "make_child", pc |-> "call", mutate |-> mutate,
                   parent |-> parent, full |-> full, last_date |-> date,
                   idx |-> idx,
                   success_rate |-> 0, max_step |-> 1,
                   history0 |-> prev_used_params, full0 |-> full,
                   returns0 |-> returns, result |-> Cancelled]
    /\ stack = <<>>
    /\ status = "idle"
    /\ model_vals = [date |-> 0]
    /\ params_file = [date |-> 0]
    /\ sim = NoSim
    /\ accepted = NoAccept
    /\ tried = NoTried
    /\ saves_left = 0
    /\ cancelled = FALSE
    /\ MONTE_CARLO_RUNS = ModuleRuns
    /\ tally_file = EmptyFile
    /\ param_cnt = EmptyTable
    /\ reset_success = FALSE
    /\ tcall = IdleTcall
    /\ bcall = IdleBcall

ChildIdle == <<mutable_param_ranges, tallyVars, bcall, stack, status, model_vals,
               params_file, accepted, tried, saves_left, cancelled,
               MONTE_CARLO_RUNS>>

\* _make_child, line 216: raise Exception('no valid mutation chosen')
MakeChildRaise ==
    /\ mcall.pc = "call"
    /\ ~ValidStrategy(mcall.mutate)
    /\ mcall' = [mcall EXCEPT !.pc = "Exception"]
    /\ UNCHANGED <<prev_used_params, sim, returns, ChildIdle>>

\* _make_child, line 208, when _step_mutate recurses without end
MakeChildRecursion ==
    /\ mcall.pc = "call"
    /\ ValidStrategy(mcall.mutate)
    /\ ChildrenOf(mcall.mutate, mutable_param_ranges, mcall.parent,
                  mcall.max_step, prev_used_params) = {}
    /\ mcall' = [mcall EXCEPT !.pc = "RecursionError"]
    /\ UNCHANGED <<prev_used_params, sim, returns, ChildIdle>>

\* _make_child, lines 207-236, for a strategy it knows
MakeChildRun ==
    /\ mcall.pc = "call"
    /\ ValidStrategy(mcall.mutate)
    /\ \E child \in ChildrenOf(mcall.mutate, mutable_param_ranges, mcall.parent,
                               mcall.max_step, prev_used_params) :
       \E result \in OracleResults :
       \E draws \in OracleDraws(ReuseReturns(mcall.idx, returns), returns, result) :
       LET handed == Update(FullParamVals(mcall.full, mcall.last_date), child) IN
          /\ prev_used_params' = HistoryAfterChild(mcall.mutate, prev_used_params, child)
          /\ sim' = [mutate |-> mcall.mutate,
                     vals |-> MuteParamVals(mutable_param_ranges, handed),
                     date |-> handed.last_date,
                     runs |-> RunsTable[mcall.success_rate],
                     idx |-> mcall.idx, result |-> result,
                     reuse |-> ReuseReturns(mcall.idx, returns), draws |-> draws]
          /\ returns' = ReturnsAfterRun(returns, draws, result)
          /\ mcall' = [mcall EXCEPT
                          !.pc = "done",
                          !.full = MuteParamVals(mutable_param_ranges, handed),
                          !.result = result]
    /\ UNCHANGED ChildIdle

ChildNext ==
    \/ MakeChildRaise
    \/ MakeChildRecursion
    \/ MakeChildRun

ChildSpec == ChildInit /\ [][ChildNext]_vars

\* ------------------------------------------------------------------ MutSpec
\* One call of _random_mutate or of _step_mutate, from any arguments and any
\* History.
ZeroIdx(ranges) == [p \in DOMAIN ranges |-> 0]

MutInit ==
    /\ mutable_param_ranges \in RangeConfigs
    /\ prev_used_params \in SUBSET Assignments(mutable_param_ranges)
    /\ \E op \in {"step", "random"} :
       \E parent \in Assignments(mutable_param_ranges) :
       \E ms \in 0..MaxStepInput :
          mcall = [op |-> op, vals |-> parent, max_step |-> ms, pc |-> "call",
                   raw |-> ZeroIdx(mutable_param_ranges),
                   new_idx |-> ZeroIdx(mutable_param_ranges),
                   res |-> parent, depth |-> 0]
    /\ tally_file = EmptyFile
    /\ param_cnt = EmptyTable
    /\ reset_success = FALSE
    /\ tcall = IdleTcall
    /\ bcall = IdleBcall
    /\ IdleMain

\* _random_mutate (line 133)
RandomMutate ==
    /\ mcall.pc = "call" /\ mcall.op = "random"
    /\ \E res \in random_mutate(mutable_param_ranges) :
          mcall' = [mcall EXCEPT !.res = res, !.pc = "returned"]
    /\ UNCHANGED <<mutable_param_ranges, prev_used_params, tallyVars, bcall, mainVars>>

\* _step_mutate, lines 138-142 with max_step = 0: _gaussian_int raises
StepMutateRaise ==
    /\ mcall.pc = "call" /\ mcall.op = "step"
    /\ gaussian_int_raises(mcall.max_step)
    /\ mcall' = [mcall EXCEPT !.pc = "ValueError"]
    /\ UNCHANGED <<mutable_param_ranges, prev_used_params, tallyVars, bcall, mainVars>>

\* _step_mutate, lines 138-142: one pass of the for loop
StepMutateDraw ==
    /\ mcall.pc = "call" /\ mcall.op = "step"
    /\ ~gaussian_int_raises(mcall.max_step)
    /\ \E raw \in RawDraws(mutable_param_ranges, mcall.vals, mcall.max_step) :
          LET idx == NewIdx(mutable_param_ranges, raw) IN
          IF IndexInRange(mutable_param_ranges, idx)
          THEN mcall' = [mcall EXCEPT !.raw = raw, !.new_idx = idx,
                           !.res = ValuesAt(mutable_param_ranges, idx),
                           !.pc = "drawn"]
          ELSE mcall' = [mcall EXCEPT !.raw = raw, !.new_idx = idx,
                           !.pc = "IndexError"]
    /\ UNCHANGED <<mutable_param_ranges, prev_used_params, tallyVars, bcall, mainVars>>

\* _step_mutate, lines 143-146: res is in the History, so the method calls itself
StepMutateResample ==
    /\ mcall.pc = "drawn"
    /\ mcall.res \in prev_used_params
    /\ mcall' = [mcall EXCEPT !.pc = "call", !.depth = 1]
    /\ UNCHANGED <<mutable_param_ranges, prev_used_params, tallyVars, bcall, mainVars>>

\* _step_mutate, line 147
StepMutateReturn ==
    /\ mcall.pc = "drawn"
    /\ mcall.res \notin prev_used_params
    /\ mcall' = [mcall EXCEPT !.pc = "returned"]
    /\ UNCHANGED <<mutable_param_ranges, prev_used_params, tallyVars, bcall, mainVars>>

MutNext ==
    \/ RandomMutate
    \/ StepMutateRaise
    \/ StepMutateDraw
    \/ StepMutateResample
    \/ StepMutateReturn

MutSpec == MutInit /\ [][MutNext]_vars

Candidates(param) ==
    { mutable_param_ranges[param][i] : i \in 1..Len(mutable_param_ranges[param]) }

OldIdx(param) == IndexOf(mutable_param_ranges[param], mcall.vals[param])

\* C1: every value _random_mutate or _step_mutate produces for a mutable
\* parameter is an element of that parameter's candidate sequence, and the
\* index _step_mutate chooses is always within 0..len(candidates)-1 (so the
\* subscript never raises), for every parent, max_step >= 1 and History.
C1_MutantsAreCandidates ==
    /\ mcall.pc # "IndexError"
    /\ mcall.pc \in {"drawn", "returned"} =>
          \A p \in DOMAIN mutable_param_ranges : mcall.res[p] \in Candidates(p)
    /\ (mcall.op = "step" /\ mcall.pc \in {"drawn", "returned"}) =>
          IndexInRange(mutable_param_ranges, mcall.new_idx)

\* a step mutation that returned after a draw past the end of a sequence
C1_Witness ==
    /\ mcall.op = "step" /\ mcall.pc = "returned" /\ mcall.max_step >= 1
    /\ \E p \in DOMAIN mutable_param_ranges :
          mcall.raw[p] >= Len(mutable_param_ranges[p])

\* C4: the index one _step_mutate draw chooses differs from the parent's index
\* by at most max_step, a draw outside 0..len-1 is clamped to the nearest end,
\* and with candidates [1,2,3,4,5], parent 3 and max_step 1 only 2, 3 or 4
\* is drawn.
C4_StepWithinMaxStep ==
    (mcall.op = "step" /\ mcall.pc \in {"drawn", "returned"}) =>
        /\ \A p \in DOMAIN mutable_param_ranges :
              LET len == Len(mutable_param_ranges[p])
                  raw == mcall.raw[p]
                  new == mcall.new_idx[p]
              IN  /\ new - OldIdx(p) <= mcall.max_step
                  /\ OldIdx(p) - new <= mcall.max_step
                  /\ raw < 0 => new = 0
                  /\ raw > len - 1 => new = len - 1
                  /\ (raw >= 0 /\ raw <= len - 1) => new = raw
        /\ ( /\ mutable_param_ranges = [X |-> <<1, 2, 3, 4, 5>>]
             /\ mcall.vals.X = 3 /\ mcall.max_step = 1 )
           => mcall.res.X \in {2, 3, 4}

\* the scenario of the claim: parent 3 of [1,2,3,4,5], max_step 1, drew 4
C4_Witness ==
    /\ mutable_param_ranges = [X |-> <<1, 2, 3, 4, 5>>]
    /\ mcall.op = "step" /\ mcall.pc = "returned"
    /\ mcall.vals.X = 3 /\ mcall.max_step = 1 /\ mcall.res.X = 4

\* C5: _step_mutate(parent, max_step = 0) returns an assignment equal to the
\* parent on every mutable parameter, for every parent.
C5_ZeroStepIsIdentity ==
    (mcall.op = "step" /\ mcall.max_step = 0 /\ mcall.pc # "call") =>
        /\ mcall.pc \in {"drawn", "returned"}
        /\ mcall.res = mcall.vals


\* the innermost main before and after a step that neither calls nor leaves it
Before == stack[Len(stack)]
After == stack'[Len(stack)]
SameFrame == Running /\ Len(stack') = Len(stack)

\* the step is one pass of lines 75-81: a step child was handed to the oracle
StepChildEvaluated == Running /\ Top.pc = "child" /\ sim'.mutate = "step"

HistoryNotFull ==
    Cardinality(prev_used_params) < Cardinality(Assignments(mutable_param_ranges))

\* C2 as claimed: while the History holds fewer assignments than the Cartesian
\* product, the assignment _step_mutate returns is not in the History, and no
\* two step children evaluated since the last random re-seed are equal.
C2_NoRepeatSinceReseed ==
    [][(StepChildEvaluated /\ HistoryNotFull) =>
          /\ sim'.vals \notin prev_used_params
          /\ sim'.vals \notin tried.reseed]_vars

\* C2 as amended: while the History holds fewer assignments than the Cartesian
\* product, the assignment _step_mutate returns is not in the History, and no
\* two step children evaluated since the History was last emptied (by a random
\* re-seed or by main starting over, line 54) are equal.
C2_NoRepeatSinceHistoryReset ==
    [][(StepChildEvaluated /\ HistoryNotFull) =>
          /\ sim'.vals \notin prev_used_params
          /\ sim'.vals \notin tried.reset]_vars

\* the third step child since the History was emptied has been evaluated
C2_Witness ==
    /\ Running /\ sim.mutate = "step"
    /\ Cardinality(tried.reset) = 3
    /\ tried.reset \subseteq prev_used_params

\* C3: a call of _step_mutate made by the loop (max_step in 1..ITER_LIMIT-1,
\* a History the loop reached) can return whenever some mutable parameter has
\* more than one candidate: some draw is not in the History, and the recursion
\* never ends in RecursionError.
C3_StepMutateReturns ==
    (\E p \in DOMAIN mutable_param_ranges : Len(mutable_param_ranges[p]) > 1) =>
        /\ status # "RecursionError"
        /\ (Running /\ Top.pc = "child") =>
              step_mutate(mutable_param_ranges, Top.parent,
                          Max(1, Top.parent_is_best_qty), prev_used_params) # {}

\* the step is lines 84-107: the children of a generation are ranked
RankStep == Running /\ Top.pc = "rank" /\ stack' # stack
BestChildBeatsParent == Before.best.rate > Before.success_rate

\* C8 as claimed: in every generation the plateau counter is reset to 0 if and
\* only if the best child's rate strictly exceeds the parent's; otherwise it
\* ends the generation at its previous value plus 1.
C8_PlateauResetOnlyOnImprovement ==
    [][RankStep =>
          /\ (After.parent_is_best_qty = 0) <=> BestChildBeatsParent
          /\ ~BestChildBeatsParent =>
                After.parent_is_best_qty = Before.parent_is_best_qty + 1]_vars

\* C8 as amended: the plateau counter is reset to 0 if and only if the best
\* child's rate strictly exceeds the parent's or the incremented counter
\* reaches ITER_LIMIT (the loop then re-seeds); otherwise it is its previous
\* value plus 1; and no later step of the generation changes it.
C8_PlateauResetOnImprovementOrLimit ==
    [][/\ RankStep =>
            IF BestChildBeatsParent
                 \/ Before.parent_is_best_qty + 1 >= ITER_LIMIT
            THEN After.parent_is_best_qty = 0
            ELSE /\ After.parent_is_best_qty = Before.parent_is_best_qty + 1
                 /\ After.parent_is_best_qty # 0
       /\ (SameFrame /\ Top.pc \notin {"rank", "start"}) =>
            After.parent_is_best_qty = Before.parent_is_best_qty]_vars

\* a generation without improvement has just brought the counter to ITER_LIMIT
C8_Witness ==
    /\ Running /\ Top.pc = "reseed"
    /\ Top.parent_is_best_qty = 0 /\ Top.success_rate = 0

\* the step ends a generation: the ranking without plateau, or the last pass of
\* the re-seed loop
GenerationEnds ==
    /\ SameFrame /\ Top.pc \in {"rank", "reseed"}
    /\ After.pc \notin {"rank", "reseed"}

\* C9: at the end of a generation CONFIRM is entered when the current success
\* rate is TARGET_SUCCESS_RATE * 1.006 (or anything above * 1.005) and is not
\* entered when it is exactly TARGET_SUCCESS_RATE (or anything below * 1.005).
C9_ConfirmHysteresis ==
    [][GenerationEnds =>
          /\ After.success_rate > ConfirmThreshold => After.pc = "confirm"
          /\ After.success_rate = TargetWithMargin => After.pc = "confirm"
          /\ After.success_rate < ConfirmThreshold => After.pc # "confirm"
          /\ After.success_rate = TARGET_SUCCESS_RATE => After.pc # "confirm"]_vars

\* CONFIRM entered with a parent at TARGET_SUCCESS_RATE * 1.006
C9_Witness ==
    /\ Running /\ Top.pc = "confirm"
    /\ Top.success_rate = TargetWithMargin

\* -------------------------------------------------------------------- PaySpec
\* social_security.Calculator: the constructor and one get_payment call.  What
\* _get_worker_payment, _get_spousal_payment and _admin_pension_payment return
\* for the row are inputs.

\* payments are 0..MaxPayment
MaxPayment == 2

\* the usr argument of the constructor
Users == {"User", "Partner", "Child"}

\* __init__, lines 96-109: usr must be either 'User' or 'Partner'
ValidUser(usr) == usr \in {"User", "Partner"}

\* get_payment, line 178: self.sim.admin and self.usr == 'partner'
AdminPartner(admin, usr) == admin /\ usr = "partner"

\* get_payment, lines 176-180
get_payment(admin, usr, worker, spousal, pension) ==
    LET res == Max(worker, spousal)
    IN  IF AdminPartner(admin, usr) THEN res + pension ELSE res

PayInit ==
    /\ \E usr \in Users, admin \in BOOLEAN,
          worker \in 0..MaxPayment, spousal \in 0..MaxPayment,
          pension \in 0..MaxPayment :
          mcall = [op |-> "get_payment", pc |-> "new", usr |-> usr,
                   admin |-> admin, worker |-> worker, spousal |-> spousal,
                   pension |-> pension, res |-> 0]
    /\ mutable_param_ranges = [X |-> <<1, 2, 3>>, Y |-> <<10, 20>>]
    /\ prev_used_params = {}
    /\ bcall = IdleBcall
    /\ tally_file = EmptyFile
    /\ param_cnt = EmptyTable
    /\ reset_success = FALSE
    /\ tcall = IdleTcall
    /\ IdleMain

\* Calculator.__init__, lines 92-109
CalculatorInit ==
    /\ mcall.op = "get_payment" /\ mcall.pc = "new"
    /\ mcall' = [mcall EXCEPT !.pc = IF ValidUser(mcall.usr) THEN "ready"
                                     ELSE "ValueError"]
    /\ UNCHANGED <<mutable_param_ranges, prev_used_params, bcall, tallyVars,
                   mainVars>>

\* Calculator.get_payment, lines 165-180
GetPayment ==
    /\ mcall.op = "get_payment" /\ mcall.pc = "ready"
    /\ mcall' = [mcall EXCEPT
                    !.res = get_payment(mcall.admin, mcall.usr, mcall.worker,
                                        mcall.spousal, mcall.pension),
                    !.pc = "done"]
    /\ UNCHANGED <<mutable_param_ranges, prev_used_params, bcall, tallyVars,
                   mainVars>>

PayNext ==
    \/ CalculatorInit
    \/ GetPayment

PaySpec == PayInit /\ [][PayNext]_vars

\* ---------------------------------------------------------------- PensionSpec
\* pension._NetWorthStrategy: the constructor and a sequence of calc_payment
\* calls on states chosen by the caller.  Dates are counted in intervals
\* (quarters of a year), rates in 1/RateUnit, inflation as a whole factor.
INTERVALS_PER_YEAR == 4
RateUnit == 10000
EARLY_YEAR == 2043
LATE_YEAR == 2053

\* BENEFIT_RATES, lines 16-28
BENEFIT_RATES ==
    [y \in EARLY_YEAR..LATE_YEAR |->
        <<116, 128, 140, 152, 164, 176, 188, 200, 213, 227, 240>>[y - EARLY_YEAR + 1]]

\* calc_payment calls made on one strategy object
MaxCalls == 3
\* the base is 1..MaxBase
MaxBase == 2

\* state.date of the calls: before EARLY_YEAR, at it, one interval into it, at
\* LATE_YEAR and a year after it
StateDates ==
    { EARLY_YEAR * INTERVALS_PER_YEAR - 1, EARLY_YEAR * INTERVALS_PER_YEAR,
      EARLY_YEAR * INTERVALS_PER_YEAR + 1, LATE_YEAR * INTERVALS_PER_YEAR,
      (LATE_YEAR + 1) * INTERVALS_PER_YEAR }
StateNetWorths == {1, 3}
StateInflations == {1, 2}
EquityTarget == 2

\* math.trunc(state.date)
Trunc(date) == date \div INTERVALS_PER_YEAR

\* None
None == 0 - 1

\* line 78: if self._payment (None and 0 are falsy)
PaymentSet(payment) == payment # None /\ payment # 0

\* lines 80-83: the condition under which the pension starts
Triggers(date, net_worth, inflation, equity_target) ==
    \/ /\ date >= EARLY_YEAR * INTERVALS_PER_YEAR
       /\ net_worth < equity_target * inflation
    \/ date = LATE_YEAR * INTERVALS_PER_YEAR

PensionInit ==
    /\ \E base \in 1..MaxBase :
          mcall = [op |-> "calc_payment", pc |-> "ok", base |-> base,
                   equity_target |-> EquityTarget,
                   payment |-> None, benefit_rate |-> None,
                   calls |-> 0, date |-> 0, net_worth |-> 0, inflation |-> 0,
                   res |-> 0]
    /\ mutable_param_ranges = [X |-> <<1, 2, 3>>, Y |-> <<10, 20>>]
    /\ prev_used_params = {}
    /\ bcall = IdleBcall
    /\ tally_file = EmptyFile
    /\ param_cnt = EmptyTable
    /\ reset_success = FALSE
    /\ tcall = IdleTcall
    /\ IdleMain

\* _NetWorthStrategy.calc_payment(state), lines 77-87, when it returns
CalcPayment ==
    /\ mcall.op = "calc_payment" /\ mcall.pc = "ok"
    /\ mcall.calls < MaxCalls
    /\ \E date \in StateDates, net_worth \in StateNetWorths,
          inflation \in StateInflations :
          LET call == [mcall EXCEPT !.calls = @ + 1, !.date = date,
                                    !.net_worth = net_worth,
                                    !.inflation = inflation]
          IN  IF PaymentSet(mcall.payment)
              THEN mcall' = [call EXCEPT !.res = mcall.payment * inflation]
              ELSE IF Triggers(date, net_worth, inflation, mcall.equity_target)
              THEN /\ Trunc(date) \in DOMAIN BENEFIT_RATES
                   /\ mcall' = [call EXCEPT
                         !.benefit_rate = BENEFIT_RATES[Trunc(date)],
                         !.payment = mcall.base * BENEFIT_RATES[Trunc(date)],
                         !.res = mcall.base * BENEFIT_RATES[Trunc(date)] * inflation]
              ELSE mcall' = [call EXCEPT !.res = 0]
    /\ UNCHANGED <<mutable_param_ranges, prev_used_params, bcall, tallyVars,
                   mainVars>>

\* calc_payment, line 84: BENEFIT_RATES has no entry for the year of the date
CalcPaymentKeyError ==
    /\ mcall.op = "calc_payment" /\ mcall.pc = "ok"
    /\ mcall.calls < MaxCalls
    /\ ~PaymentSet(mcall.payment)
    /\ \E date \in StateDates, net_worth \in StateNetWorths,
          inflation \in StateInflations :
          /\ Triggers(date, net_worth, inflation, mcall.equity_target)
          /\ Trunc(date) \notin DOMAIN BENEFIT_RATES
          /\ mcall' = [mcall EXCEPT !.calls = @ + 1, !.date = date,
                                    !.net_worth = net_worth,
                                    !.inflation = inflation,
                                    !.pc = "KeyError"]
    /\ UNCHANGED <<mutable_param_ranges, prev_used_params, bcall, tallyVars,
                   mainVars>>

PensionNext ==
    \/ CalcPayment
    \/ CalcPaymentKeyError

PensionSpec == PensionInit /\ [][PensionNext]_vars

\* ------------------------------------------------------------------- RaceSpec
\* Two instances sharing one tally file, each calling _update_param_count.
\* The method opens the file twice and holds no lock: the load (lines 185-194),
\* the truncation by open(..., 'w') (lines 195-197) and the dump (line 198) of
\* one instance interleave with those of the other. Here param_cnt,
\* reset_success and tcall hold one entry per instance.
Instances == {"a", "b"}

\* calls each instance makes
MaxRaceAccepts == 2

RaceInit ==
    /\ mutable_param_ranges \in MainConfigs
    /\ tally_file = JsonFile(ZeroTable(mutable_param_ranges))
    /\ reset_success = [w \in Instances |-> FALSE]
    /\ param_cnt = [w \in Instances |-> EmptyTable]
    /\ tcall = [pc |-> [w \in Instances |-> "idle"],
                done |-> [w \in Instances |-> 0],
                err |-> [w \in Instances |-> "ok"]]
    /\ prev_used_params = {}
    /\ mcall = IdleMcall
    /\ bcall = IdleBcall
    /\ IdleMain

\* lines 185-196 by instance w: load (the except branch dumps {} into a file
\* that is empty), reset if flagged, increment the entry of every parameter
LoadTally(w) ==
    /\ tcall.pc[w] = "idle" /\ tcall.err[w] = "ok"
    /\ tcall.done[w] < MaxRaceAccepts
    /\ \E vals \in Assignments(mutable_param_ranges) :
          LET flag == ResetFlagAfterLoad(reset_success[w], tally_file)
              cnt == CountAfterReset(LoadedCount(tally_file), flag,
                                     mutable_param_ranges)
              out == IncrementLoop(cnt, mutable_param_ranges, vals,
                                   ParamOrder(mutable_param_ranges))
          IN  /\ param_cnt' = [param_cnt EXCEPT ![w] = out.cnt]
              /\ reset_success' = [reset_success EXCEPT ![w] = FALSE]
              /\ tally_file' = IF tally_file.kind = "empty"
                               THEN JsonFile(EmptyTable) ELSE tally_file
              /\ tcall' = [tcall EXCEPT
                              !.pc[w] = IF out.err = "ok" THEN "loaded" ELSE "idle",
                              !.err[w] = out.err]
    /\ UNCHANGED <<mutable_param_ranges, mutVars, bcall, mainVars>>

\* line 197 by instance w: open(..., 'w') empties the file
TruncateTally(w) ==
    /\ tcall.pc[w] = "loaded"
    /\ tally_file' = EmptyFile
    /\ tcall' = [tcall EXCEPT !.pc[w] = "opened"]
    /\ UNCHANGED <<mutable_param_ranges, mutVars, bcall, mainVars,
                   param_cnt, reset_success>>

\* line 198 by instance w: json.dump(self.param_cnt, outfile), and the return
DumpTally(w) ==
    /\ tcall.pc[w] = "opened"
    /\ tally_file' = JsonFile(param_cnt[w])
    /\ tcall' = [tcall EXCEPT !.pc[w] = "idle", !.done[w] = @ + 1]
    /\ UNCHANGED <<mutable_param_ranges, mutVars, bcall, mainVars,
                   param_cnt, reset_success>>

RaceNext ==
    \E w \in Instances :
        \/ LoadTally(w)
        \/ TruncateTally(w)
        \/ DumpTally(w)

RaceSpec == RaceInit /\ [][RaceNext]_vars

RECURSIVE SumSeq(_)
SumSeq(q) == IF q = <<>> THEN 0 ELSE Head(q) + SumSeq(Tail(q))

\* the number of calls so far whose value for param was candidates[i] (i 1-based)
Accepted(param, i) ==
    Cardinality({ k \in 1..Len(tcall.accepts) :
                    tcall.accepts[k][param] = mutable_param_ranges[param][i] })

\* the tally the first call works from is all-zero: the stored table is, or the
\* reset flag is set, or the file cannot be parsed
StartsReset ==
    \/ tcall.reset0
    \/ tcall.file0.kind # "json"
    \/ tcall.file0 = JsonFile(ZeroTable(mutable_param_ranges))

TableIsTally(table) ==
    /\ DOMAIN table = DOMAIN mutable_param_ranges
    /\ \A p \in DOMAIN mutable_param_ranges :
          /\ Len(table[p]) = Len(mutable_param_ranges[p])
          /\ SumSeq(table[p]) = Len(tcall.accepts)
          /\ \A i \in 1..Len(table[p]) : table[p][i] = Accepted(p, i)

\* C6: starting from a reset (all-zero) tally, after n _update_param_count
\* calls by one instance sum(tally[param]) = n for every mutable parameter and
\* tally[param][i] is the number of those calls whose value was candidates[i],
\* in self.param_cnt and in the file.
C6_TallyCountsAccepts ==
    (StartsReset /\ tcall.err # "idle" /\ Len(tcall.accepts) >= 1) =>
        /\ tcall.err = "ok"
        /\ tally_file.kind = "json"
        /\ TableIsTally(tally_file.table)
        /\ param_cnt = tally_file.table

\* three calls made from a stored all-zero table, two of them with the same
\* value of X
C6_Witness ==
    /\ tcall.file0 = JsonFile(ZeroTable(mutable_param_ranges))
    /\ ~tcall.reset0
    /\ Len(tcall.accepts) = 3
    /\ tcall.accepts[1].X = tcall.accepts[3].X
    /\ tcall.accepts[1].X # tcall.accepts[2].X

\* C7: with an empty or unparseable tally file the next _update_param_count
\* does not raise and leaves in the file a table with one array per mutable
\* parameter, sized to its candidate sequence, holding exactly one 1.
C7_UnparseableTallyRebuilt ==
    (tcall.file0.kind \in {"empty", "corrupt"} /\ Len(tcall.accepts) = 1) =>
        /\ tcall.err = "ok"
        /\ tally_file.kind = "json"
        /\ DOMAIN tally_file.table = DOMAIN mutable_param_ranges
        /\ \A p \in DOMAIN mutable_param_ranges :
              /\ Len(tally_file.table[p]) = Len(mutable_param_ranges[p])
              /\ \A i \in 1..Len(mutable_param_ranges[p]) :
                    tally_file.table[p][i] =
                        IF mutable_param_ranges[p][i] = tcall.accepts[1][p]
                        THEN 1 ELSE 0

\* the first call on an empty file with the reset flag clear has returned
C7_Witness ==
    /\ tcall.file0.kind = "empty" /\ ~tcall.reset0
    /\ Len(tcall.accepts) = 1 /\ tcall.err = "ok"
    /\ Cardinality(DOMAIN mutable_param_ranges) = 2


\* C10: for every prior success rate in [0,1] the budget _make_child computes
\* is an integer with INITIAL_MONTE_RUNS <= budget <= MAX_MONTE_RUNS.
C10_BudgetWithinRuns ==
    bcall.pc = "done" =>
        /\ bcall.runs \in Int
        /\ INITIAL_MONTE_RUNS <= bcall.runs
        /\ bcall.runs <= MAX_MONTE_RUNS

\* a prior rate above the target, whose unclamped product is above MAX_MONTE_RUNS
C10_Witness ==
    /\ bcall.pc = "done"
    /\ bcall.success_rate > TARGET_SUCCESS_RATE
    /\ RawRuns(bcall.success_rate) > MAX_MONTE_RUNS
    /\ bcall.runs = MAX_MONTE_RUNS

\* C11: with TARGET_SUCCESS_RATE = 0.95 a prior success rate of 0 yields the
\* budget INITIAL_MONTE_RUNS and every prior success rate >= 0.95 yields the
\* budget MAX_MONTE_RUNS.
C11_BudgetAtEnds ==
    bcall.pc = "done" =>
        /\ bcall.success_rate = 0 => bcall.runs = INITIAL_MONTE_RUNS
        /\ bcall.success_rate >= TARGET_SUCCESS_RATE => bcall.runs = MAX_MONTE_RUNS

\* the budget computed for a prior rate of exactly TARGET_SUCCESS_RATE
C11_Witness ==
    /\ bcall.pc = "done"
    /\ bcall.success_rate = TARGET_SUCCESS_RATE
    /\ bcall.runs = MAX_MONTE_RUNS

\* the step is one call of _check_if_beaten (line 72 or line 122)
CheckBeatenStep == Running /\ Top.pc \in {"loop", "advance"} /\ stack' # stack
\* _check_if_beaten called self.main(): a new invocation starts over
Restarted == Len(stack') = Len(stack) + 1 /\ ~stack'[Len(stack')].next_loop

BaselineWritten == Running /\ Top.pc = "save" /\ stack' # stack

\* C13: once an evaluation has returned Cancelled, in whatever invocation of
\* main, the instance makes no further oracle call, no tally write and no
\* baseline write.
C13_CancelStopsSideEffects ==
    [][cancelled =>
          /\ sim'.mutate = "none"
          /\ ~accepted'.called
          /\ ~BaselineWritten]_vars

\* C14: as long as no evaluation is cancelled, whatever success rates the
\* oracle returns (0.0 included), Algorithm.main does not return.
C14_ReturnsOnlyWhenCancelled ==
    ~cancelled => status # "returned"

\* C15: within one generation sibling 0 is evaluated with freshly generated
\* draws (none handed in, and unlike the stored ones), and every sibling with
\* index >= 1 is handed, and evaluated with, exactly the draws the sibling
\* before it used, hence those of sibling 0.
C15_SiblingsShareDraws ==
    [][StepChildEvaluated =>
          IF Top.idx = 0
          THEN /\ sim'.reuse = NoDraws
               /\ sim'.result # Cancelled => sim'.draws \notin {NoDraws, returns}
          ELSE /\ sim'.reuse # NoDraws
               /\ sim'.result # Cancelled => sim'.draws = sim'.reuse
               /\ sim.mutate = "step" =>
                     /\ sim.idx = Top.idx - 1
                     /\ sim'.reuse = sim.draws]_vars

\* sibling 1 has been evaluated right after sibling 0, with its draws
C15_Witness ==
    /\ sim.mutate = "step" /\ sim.idx = 1 /\ sim.result # Cancelled
    /\ sim.draws = sim.reuse /\ sim.draws = returns

\* C16: _make_child called with a strategy other than 'step', 'random' or
\* 'identical' raises, without a Simulator run and with the History, the full
\* assignment, the tally and the stored draws as they were.
C16_InvalidStrategyRaises ==
    (mcall.pc # "call" /\ mcall.mutate \notin {"step", "random", "identical"}) =>
        /\ mcall.pc = "Exception"
        /\ sim = NoSim
        /\ prev_used_params = mcall.history0
        /\ mcall.full = mcall.full0
        /\ returns = mcall.returns0
        /\ tally_file = EmptyFile /\ param_cnt = EmptyTable

\* the call with an unknown strategy has raised, from a History and a full
\* assignment a valid strategy would have changed
C16_Witness ==
    /\ mcall.pc = "Exception" /\ mcall.mutate = "bogus"
    /\ prev_used_params # {} /\ mcall.full # mcall.parent

\* C17: when main starts from the registry's current values (not resuming
\* from ADVANCE), lines 51-68 hand the improvement loop a parent whose
\* evaluated success rate is at least SUCCESS_THRESH.
C17_SeedMeetsThreshold ==
    [][(Running /\ Top.pc = "start" /\ ~Top.next_loop /\ stack' # stack) =>
          /\ After.pc = "loop"
          /\ After.success_rate >= SUCCESS_THRESH]_vars

\* the step is the confirmation run of lines 110-116, not cancelled
ConfirmStep == SameFrame /\ Top.pc = "confirm" /\ sim'.mutate = "identical"

\* C18: when the confirmation run returns a rate below TARGET_SUCCESS_RATE the
\* loop goes back to the top with the parent and the success rate it held
\* immediately before the confirmation.
C18_FailedConfirmDiscarded ==
    [][(ConfirmStep /\ sim'.result < TARGET_SUCCESS_RATE) =>
          /\ After.pc = "loop"
          /\ After.parent = Before.parent
          /\ After.success_rate = Before.success_rate]_vars

\* the step is the confirmation of lines 110-116, cancelled or not
ConfirmTaken == Running /\ Top.pc = "confirm" /\ stack' # stack

\* C19: every confirmation is one Simulator run on exactly the current
\* parent's mutable assignment (mutate = 'identical', History unchanged) with
\* a budget of MAX_MONTE_RUNS; and no other step evaluates with 'identical'.
C19_ConfirmIsIdenticalAtMaxRuns ==
    [][/\ ConfirmTaken =>
            /\ sim'.mutate = "identical"
            /\ sim'.vals = Top.parent
            /\ sim'.runs = MAX_MONTE_RUNS
            /\ prev_used_params' = prev_used_params
       /\ sim'.mutate = "identical" => ConfirmTaken]_vars

\* a confirmation has just run on a parent and left the History, which holds
\* other assignments too, as it was
C19_Witness ==
    /\ sim.mutate = "identical" /\ sim.runs = MAX_MONTE_RUNS
    /\ sim.result >= TARGET_SUCCESS_RATE
    /\ Running /\ sim.vals = Top.parent
    /\ Cardinality(prev_used_params) > 1

\* C20: a baseline write follows a successful confirmation of the assignment
\* written with no oracle call in between: if the step right before the write
\* was an oracle call at all, it was that confirmation.
C20_WriteFollowsConfirmation ==
    [][BaselineWritten =>
          \/ sim.mutate = "none"
          \/ /\ sim.mutate = "identical"
             /\ sim.vals = Top.parent
             /\ sim.result >= TARGET_SUCCESS_RATE]_vars

\* C21: every ADVANCE asks save_from_genetic to reduce the dates
\* (reduce_dates is set), so the loop it starts has an earlier last_date than
\* the one just confirmed; the first ADVANCE of a loop not started by an
\* ADVANCE included.
C21_AdvanceReducesDates ==
    [][BaselineWritten =>
          /\ Top.next_loop
          /\ params_file'.date < Top.date
          /\ stack'[Len(stack')].date < Top.date]_vars

\* the step is lines 51-68 of a main that _check_if_beaten started
RestartedMainStarts ==
    /\ Running /\ Len(stack) > 1
    /\ Top.pc = "start" /\ ~Top.next_loop
    /\ stack' # stack

\* C22: the main that _check_if_beaten starts takes the persisted baseline as
\* its own, so it is not beaten at its first check: one overtake causes one
\* restart.
C22_RestartTakesPersistedBaseline ==
    [][RestartedMainStarts =>
          /\ After.date = params_file.date
          /\ ~Beaten(After.date, params_file)]_vars

\* the children of the generation that have the highest rate
BestChildren(children) ==
    {children[i].vals : i \in {j \in DOMAIN children :
                                  children[j].rate = MaxRate(children)}}

\* C23: at the ranking step of a generation the parent is replaced if and only
\* if the highest child rate strictly exceeds the parent's rate; then the new
\* parent is a child of the generation with that rate, the current rate becomes
\* that rate and the tally accept is called once, with the new parent;
\* otherwise the parent is kept and no accept is made.
C23_ParentReplacedIffBestChildBetter ==
    [][RankStep =>
          /\ Len(Before.children) = OFFSPRING_QTY
          /\ IF MaxRate(Before.children) > Before.success_rate
             THEN /\ After.parent \in BestChildren(Before.children)
                  /\ After.success_rate = MaxRate(Before.children)
                  /\ accepted' = Accept(After.parent)
             ELSE /\ After.parent = Before.parent
                  /\ accepted' = NoAccept]_vars

\* a generation has just been ranked and its best child adopted
C23_Witness ==
    /\ Running /\ Top.pc \in {"loop", "confirm"}
    /\ Top.success_rate > 0 /\ Top.parent_is_best_qty = 0
    /\ accepted = Accept(Top.parent)
    /\ sim = NoSim

\* one pass of the re-seeding loop of lines 96-99 whose evaluation was not
\* cancelled
ReseedStep ==
    /\ Running /\ Top.pc = "reseed"
    /\ sim'.mutate = "random" /\ sim'.result # Cancelled

\* C24: after the plateau counter reached ITER_LIMIT the loop draws random
\* assignments until one scores at least SUCCESS_THRESH: a pass that is not
\* cancelled and scores less is followed by another pass, and one that scores
\* at least SUCCESS_THRESH leaves the plateau counter at 0, that assignment as
\* the parent and a History holding nothing but that last draw.
C24_ReseedUntilThreshold ==
    [][ReseedStep =>
          /\ SameFrame
          /\ IF sim'.result < SUCCESS_THRESH
             THEN After.pc = "reseed"
             ELSE /\ After.pc # "reseed"
                  /\ After.parent_is_best_qty = 0
                  /\ After.parent = sim'.vals
                  /\ After.success_rate = sim'.result
                  /\ prev_used_params' = {sim'.vals}]_vars

\* one pass of the loop of lines 75-81 has been made
GenerationStep == Running /\ Top.pc = "child" /\ stack' # stack

\* C25: a generation that is not cancelled evaluates OFFSPRING_QTY step
\* children, with the sibling indices 0..OFFSPRING_QTY-1 in order, all drawn from
\* the same parent with max_step = max(1, parent_is_best_qty), and the plateau
\* counter is in 0..ITER_LIMIT-1 throughout: every pass evaluates a step child,
\* and unless that evaluation is cancelled the next pass (or the ranking, after
\* the last one) follows with the same parent and counter.
C25_GenerationEvaluatesAllChildren ==
    [][GenerationStep =>
          /\ Before.parent_is_best_qty \in 0..(ITER_LIMIT - 1)
          /\ sim'.mutate = "step"
          /\ sim'.idx = Len(Before.children)
          /\ sim'.vals \in step_mutate(mutable_param_ranges, Before.parent,
                                       Max(1, Before.parent_is_best_qty),
                                       prev_used_params)
          /\ sim'.result # Cancelled =>
                /\ SameFrame
                /\ After.parent = Before.parent
                /\ After.parent_is_best_qty = Before.parent_is_best_qty
                /\ Len(After.children) = Len(Before.children) + 1
                /\ After.pc = IF Len(After.children) = OFFSPRING_QTY
                              THEN "rank" ELSE "child"]_vars

\* C26: no tally write is made for a generation that is cancelled: no pass of
\* the loop of lines 75-81 calls the accept, and the pass whose evaluation
\* returns Cancelled is the last step of the main that ran the generation.
C26_NoTallyWriteForCancelledGeneration ==
    [][GenerationStep =>
          /\ ~accepted'.called
          /\ (sim'.mutate = "step" /\ sim'.result = Cancelled) =>
                /\ Len(stack') = Len(stack) - 1
                /\ \A i \in 1..Len(stack') : stack'[i].pc # "rank"]_vars

\* a later child of a generation has been cancelled
C26_Witness ==
    /\ sim.mutate = "step" /\ sim.result = Cancelled
    /\ sim.idx > 0
    /\ ~accepted.called

\* every call of either instance has returned
RaceQuiet == \A w \in Instances : tcall.pc[w] = "idle" /\ tcall.err[w] = "ok"

\* C27: for two instances sharing the tally file, whenever every accept call
\* made so far has returned, sum(tally[param]) in the file is the number of
\* accept calls made by both instances, for every mutable parameter.
C27_TallyCountsAllWriters ==
    RaceQuiet =>
        /\ tally_file.kind = "json"
        /\ DOMAIN tally_file.table = DOMAIN mutable_param_ranges
        /\ \A p \in DOMAIN mutable_param_ranges :
              SumSeq(tally_file.table[p]) = tcall.done["a"] + tcall.done["b"]

\* C28: after every _update_param_count, whatever parseable content the tally
\* file held before (an empty mapping, missing parameter names or arrays of
\* another length included), the call has not raised and the stored tally has
\* exactly the mutable parameter names as keys, each array as long as that
\* parameter's candidate sequence.
C28_ParseableTallyNormalised ==
    (tcall.file0.kind = "json" /\ Len(tcall.accepts) >= 1) =>
        /\ tcall.err = "ok"
        /\ tally_file.kind = "json"
        /\ DOMAIN tally_file.table = DOMAIN mutable_param_ranges
        /\ \A p \in DOMAIN mutable_param_ranges :
              Len(tally_file.table[p]) = Len(mutable_param_ranges[p])

\* _make_child hands a full assignment to the simulator
HandedToOracle == mcall.pc = "call" /\ sim'.mutate # "none"

\* C29: the full assignment handed to the simulator has every mutable
\* parameter at the value of the candidate being evaluated (the step child or
\* the random child, which is the one entered in the History, or the parent
\* under 'identical'), and the entry that is not mutable as it was in the full
\* assignment the loop passed in.
C29_OracleGetsCandidateOnBaseline ==
    [][HandedToOracle =>
          /\ DOMAIN sim'.vals = DOMAIN mutable_param_ranges
          /\ sim'.date = mcall.last_date
          /\ IF mcall.mutate = "step"
             THEN prev_used_params' \ prev_used_params = {sim'.vals}
             ELSE IF mcall.mutate = "random"
             THEN prev_used_params' = {sim'.vals}
             ELSE sim'.vals = mcall.parent]_vars

\* the parent has been evaluated under 'identical' on a full assignment that
\* held other values of the mutable parameters
C29_Witness ==
    /\ mcall.pc = "done" /\ mcall.mutate = "identical"
    /\ mcall.full0 # mcall.parent
    /\ sim.vals = mcall.parent
    /\ sim.date = mcall.last_date /\ mcall.last_date > 0

\* C30: with another instance sharing the baseline file, a write of this
\* instance never leaves the file less advanced than it was (a later last_date
\* than the one it replaces): it does not overwrite a more advanced baseline
\* of the other instance.
C30_BaselineNeverRegresses ==
    [][BaselineWritten => params_file'.date <= params_file.date]_vars

\* C31: the MAX_MONTE_RUNS override made for the confirmation is temporary:
\* however the confirmation ends (failed, held, or its evaluation cancelled),
\* simulator.MONTE_CARLO_RUNS is afterwards what it was before.
C31_RunCountRestored ==
    [][ConfirmTaken => MONTE_CARLO_RUNS' = MONTE_CARLO_RUNS]_vars

\* C32: a step child evaluated in a generation is never equal to the current
\* parent, wherever that parent came from (the seed, an ADVANCE, a random
\* re-seed or an adopted child).
C32_StepChildDiffersFromParent ==
    [][StepChildEvaluated => sim'.vals # Before.parent]_vars

\* C33: get_payment of the calculator constructed with usr = 'Partner', when
\* sim.admin is set, returns max(worker payment, spousal payment) plus the
\* admin pension payment of the row; for usr = 'User' or with sim.admin not
\* set it returns the max alone.
C33_PartnerGetsAdminPension ==
    (mcall.op = "get_payment" /\ mcall.pc = "done") =>
        mcall.res = IF mcall.admin /\ mcall.usr = "Partner"
                    THEN Max(mcall.worker, mcall.spousal) + mcall.pension
                    ELSE Max(mcall.worker, mcall.spousal)

\* a calc_payment call has been made on the strategy
CalcStep == mcall.op = "calc_payment" /\ mcall'.calls = mcall.calls + 1

\* C34: _NetWorthStrategy latches.  With a positive base, a call made before
\* any call has triggered returns 0 and leaves the strategy as it was, unless
\* its own state triggers (date >= EARLY_YEAR with net worth below
\* equity_target * inflation, or date = LATE_YEAR); the call that triggers and
\* every later call return the fixed base * benefit_rate times the state's
\* inflation, and the payment and the benefit rate never change afterwards.
C34_NetWorthStrategyLatches ==
    [][CalcStep =>
          IF PaymentSet(mcall.payment)
          THEN /\ mcall'.pc = "ok"
               /\ mcall'.payment = mcall.payment
               /\ mcall'.benefit_rate = mcall.benefit_rate
               /\ mcall'.res = mcall.base * mcall.benefit_rate * mcall'.inflation
          ELSE IF Triggers(mcall'.date, mcall'.net_worth, mcall'.inflation,
                           mcall.equity_target)
          THEN /\ mcall'.pc = "ok"
               /\ PaymentSet(mcall'.payment)
               /\ mcall'.payment = mcall.base * mcall'.benefit_rate
               /\ mcall'.res = mcall'.payment * mcall'.inflation
          ELSE /\ mcall'.pc = "ok"
               /\ mcall'.res = 0
               /\ mcall'.payment = None /\ mcall'.benefit_rate = None]_vars

====
